---- MODULE Spec2Model ----
(***************************************************************************)
(* The trivia API of backend/flaskr/__init__.py as a state machine.  The   *)
(* state is the two tables behind the handlers (Question and Category      *)
(* rows) together with the request served last and the response it got.    *)
(* Every step serves one HTTP request, start to finish.                    *)
(***************************************************************************)
EXTENDS Integers, Sequences, FiniteSets, TLC

VARIABLES
    questions,   \* the Question table: a set of rows, one per primary key
    categories,  \* the Category table: a set of rows
    next_id,     \* the primary key the store gives the next inserted Question
    request,     \* the request served last
    response,    \* the response that request got: [status, body]
    served,      \* how many requests have been served
    created      \* history: for every Question inserted through the API, its
                 \* id and the number of questions stored before the insert

vars == <<questions, categories, next_id, request, response, served, created>>

----------------------------------------------------------------------------
(* Bounds of the model *)

\* requests served in one behaviour
MaxRequests == 3
\* page numbers asked for range over -MaxPage .. MaxPage
MaxPage == 2
\* previous_questions lists are <<1, ..., n>> for n up to MaxPrev
MaxPrev == 3
\* category ids asked for range over 0 .. MaxCategory
MaxCategory == 3

----------------------------------------------------------------------------
(* Values *)

QUESTIONS_PER_PAGE == 10

\* Python None / JSON null / SQL NULL, and a value that is present
None == <<>>
Some(v) == <<v>>

\* the elements of a list
Range(seq) == {seq[i] : i \in 1..Len(seq)}

\* a Python dict to which no key has been added
EmptyDict == <<>>

\* dict.get(key, None)
Get(dict, key) == IF key \in DOMAIN dict THEN dict[key] ELSE None

\* Question.format(): the flat projection of a row that is serialised
format(q) ==
    [id |-> q.id, question |-> q.question, answer |-> q.answer,
     category |-> q.category, difficulty |-> q.difficulty]

\* query.order_by(Question.id).all()
RECURSIVE OrderById(_)
OrderById(rows) ==
    IF rows = {} THEN <<>>
    ELSE LET first == CHOOSE r \in rows : \A o \in rows : r.id <= o.id
         IN  <<first>> \o OrderById(rows \ {first})

\* how Python places one bound of a slice in a list of length n
SliceIndex(i, n) ==
    IF i < 0 THEN (IF i + n < 0 THEN 0 ELSE i + n)
    ELSE (IF i > n THEN n ELSE i)

\* seq[start:end] of Python (0-based, end exclusive, negative bounds count
\* from the end of the list)
PySlice(seq, start, end) ==
    LET lo == SliceIndex(start, Len(seq))
        hi == SliceIndex(end, Len(seq))
    IN  IF lo >= hi THEN <<>> ELSE SubSeq(seq, lo + 1, hi)

\* request.args.get("page", 1, type=int): the page asked for, 1 when the
\* query string has none
PageArg(page_arg) == IF page_arg = None THEN 1 ELSE page_arg[1]

paginate_questions(page_arg, selection) ==
    LET page == PageArg(page_arg)
        start == (page - 1) * QUESTIONS_PER_PAGE
        end == start + QUESTIONS_PER_PAGE
        formatted == [i \in 1..Len(selection) |-> format(selection[i])]
    IN  PySlice(formatted, start, end)

----------------------------------------------------------------------------
(* Responses *)

jsonify(body) == [status |-> 200, body |-> body]

not_found ==
    [status |-> 404,
     body |-> [success |-> FALSE, error |-> 404, message |-> "resource not found"]]

unprocessable ==
    [status |-> 422,
     body |-> [success |-> FALSE, error |-> 422, message |-> "unprocessable"]]

bad_request ==
    [status |-> 400,
     body |-> [success |-> FALSE, error |-> 400, message |-> "bad request"]]

\* no handler is registered for any other code: the framework's own page
default_error(code) == [status |-> code, body |-> [html |-> "error page"]]

\* abort(code), as the registered error handlers answer it
abort(code) ==
    CASE code = 404 -> not_found
      [] code = 422 -> unprocessable
      [] code = 400 -> bad_request
      [] OTHER -> default_error(code)

\* {category.id: category.type for category in categories}
categories_dict(cats) ==
    [i \in {c.id : c \in cats} |-> (CHOOSE c \in cats : c.id = i).type]

----------------------------------------------------------------------------
(* GET /categories *)

retrieve_categories_response(cats) ==
    IF Cardinality(cats) = 0
    THEN abort(404)
    ELSE jsonify([success |-> TRUE, categories |-> categories_dict(cats)])

retrieve_categories ==
    /\ served < MaxRequests
    /\ request' = [route |-> "retrieve_categories"]
    /\ response' = retrieve_categories_response(categories)
    /\ served' = served + 1
    /\ UNCHANGED <<questions, categories, next_id, created>>

----------------------------------------------------------------------------
(* GET /questions?page=N *)

retrieve_questions_response(rows, cats, page_arg) ==
    LET selection == OrderById(rows)
        current_questions == paginate_questions(page_arg, selection)
    IN  IF Len(current_questions) = 0
        THEN abort(404)
        ELSE jsonify([success |-> TRUE,
                      questions |-> current_questions,
                      total_questions |-> Len(selection),
                      categories |-> categories_dict(cats),
                      current_category |-> None])

retrieve_questions(page_arg) ==
    /\ served < MaxRequests
    /\ request' = [route |-> "retrieve_questions", page |-> page_arg]
    /\ response' = retrieve_questions_response(questions, categories, page_arg)
    /\ served' = served + 1
    /\ UNCHANGED <<questions, categories, next_id, created>>

----------------------------------------------------------------------------
(* DELETE /questions/<int:question_id> *)

\* Question.query.filter(Question.id == question_id).one_or_none()
one_or_none(rows, question_id) ==
    LET found == {q \in rows : q.id = question_id}
    IN  IF found = {} THEN None ELSE Some(CHOOSE q \in found : TRUE)

\* Question.delete(): the row leaves the table
delete(rows, q) == rows \ {q}

\* delete_question_result, had the delete never reached the table
delete_question_result_KeepsRow(rows, question_id) ==
    LET question == one_or_none(rows, question_id)
    IN  IF question = None
        THEN [response |-> abort(422), rows |-> rows]
        ELSE [response |-> jsonify([success |-> TRUE, deleted |-> question_id]),
              rows |-> rows]

\* delete_question_result, had the abort(404) of a missing row escaped the try
delete_question_result_Escapes(rows, question_id) ==
    LET question == one_or_none(rows, question_id)
    IN  IF question = None
        THEN [response |-> abort(404), rows |-> rows]
        ELSE [response |-> jsonify([success |-> TRUE, deleted |-> question_id]),
              rows |-> delete(rows, question[1])]

\* what the handler answers and the table it leaves: the abort(404) of a
\* missing row is raised inside the try and caught by its bare except
delete_question_result(rows, question_id) ==
    LET question == one_or_none(rows, question_id)
    IN  IF question = None
        THEN [response |-> abort(422), rows |-> rows]
        ELSE [response |-> jsonify([success |-> TRUE, deleted |-> question_id]),
              rows |-> delete(rows, question[1])]

delete_question(question_id) ==
    /\ served < MaxRequests
    /\ request' = [route |-> "delete_question", question_id |-> question_id]
    /\ LET result == delete_question_result(questions, question_id)
       IN  /\ response' = result.response
           /\ questions' = result.rows
    /\ served' = served + 1
    /\ UNCHANGED <<categories, next_id, created>>

----------------------------------------------------------------------------
(* request.get_json() *)

\* What get_json() does with a request that carries no JSON body depends on
\* the installed framework, which the repository does not pin: it returns
\* None, or it aborts the request with 400, or with 415.
GetJsonOutcomes == {"none", "abort 400", "abort 415"}

\* [abort |-> the code get_json() aborts with, 0 when it returns,
\*  json |-> what it returns: None, or Some(the dict sent)]
get_json(sent, outcome) ==
    IF sent # None THEN [abort |-> 0, json |-> sent]
    ELSE CASE outcome = "abort 400" -> [abort |-> 400, json |-> None]
           [] outcome = "abort 415" -> [abort |-> 415, json |-> None]
           [] OTHER -> [abort |-> 0, json |-> None]

\* the view raised outside any try, or returned no response
internal_server_error == default_error(500)

----------------------------------------------------------------------------
(* POST /questions: search, or create *)

\* s LIKE p: "%" matches any run of characters, "_" any one character
RECURSIVE Like(_, _)
Like(s, p) ==
    IF p = <<>> THEN s = <<>>
    ELSE IF Head(p) = "%"
         THEN Like(s, Tail(p)) \/ (s # <<>> /\ Like(Tail(s), p))
         ELSE /\ s # <<>>
              /\ (Head(p) = "_" \/ Head(p) = Head(s))
              /\ Like(Tail(s), Tail(p))

\* Question.question.contains(other): column LIKE '%' || other || '%', with
\* the wildcards of other left as they are; NULL is like nothing
contains(column, other) ==
    /\ column # None
    /\ Like(column[1], <<"%">> \o other \o <<"%">>)

\* f'{search}' of a str
fstring(search) == search[1]

\* Question(question=..., answer=..., category=..., difficulty=...)
Question(question, answer, category, difficulty) ==
    [question |-> question, answer |-> answer,
     category |-> category, difficulty |-> difficulty]

\* Question.insert(): the store gives the row its primary key
insert(rows, id, question_obj) == rows \cup {("id" :> id) @@ question_obj}

\* search_questions_result, had the create branch passed difficulty as
\* category and category as difficulty
search_questions_result_SwapsFields(rows, id, json) ==
    IF json = None
    THEN [response |-> internal_server_error, rows |-> rows]
    ELSE LET body == json[1]
             search == Get(body, "searchTerm")
         IN  IF search # None
             THEN LET question == SelectSeq(OrderById(rows),
                          LAMBDA q : contains(q.question, fstring(search)))
                      question_dict == [i \in 1..Len(question) |-> format(question[i])]
                  IN  [response |-> jsonify([questions |-> question_dict,
                                             total_questions |-> Len(question)]),
                       rows |-> rows]
             ELSE LET question_obj == Question(Get(body, "question"),
                                               Get(body, "answer"),
                                               Get(body, "difficulty"),
                                               Get(body, "category"))
                  IN  [response |-> jsonify([success |-> TRUE]),
                       rows |-> insert(rows, id, question_obj)]

\* what the handler answers and the table it leaves, given what get_json()
\* returned
search_questions_result(rows, id, json) ==
    IF json = None
    THEN \* None has no get(): the view raises
         [response |-> internal_server_error, rows |-> rows]
    ELSE LET body == json[1]
             search == Get(body, "searchTerm")
         IN  IF search # None
             THEN LET question == SelectSeq(OrderById(rows),
                          LAMBDA q : contains(q.question, fstring(search)))
                      question_dict == [i \in 1..Len(question) |-> format(question[i])]
                  IN  [response |-> jsonify([questions |-> question_dict,
                                             total_questions |-> Len(question)]),
                       rows |-> rows]
             ELSE LET question_obj == Question(Get(body, "question"),
                                               Get(body, "answer"),
                                               Get(body, "category"),
                                               Get(body, "difficulty"))
                  IN  [response |-> jsonify([success |-> TRUE]),
                       rows |-> insert(rows, id, question_obj)]

search_questions(sent, outcome) ==
    /\ served < MaxRequests
    /\ request' = [route |-> "search_questions", body |-> sent]
    /\ LET got == get_json(sent, outcome)
           result == search_questions_result(questions, next_id, got.json)
       IN  IF got.abort # 0
           THEN /\ response' = abort(got.abort)
                /\ UNCHANGED <<questions, next_id, created>>
           ELSE /\ response' = result.response
                /\ questions' = result.rows
                /\ IF result.rows # questions
                   THEN /\ next_id' = next_id + 1
                        /\ created' = created \cup
                              {[id |-> next_id, total_before |-> Cardinality(questions)]}
                   ELSE UNCHANGED <<next_id, created>>
    /\ served' = served + 1
    /\ UNCHANGED categories

----------------------------------------------------------------------------
(* GET /categories/<int:category_id>/questions?page=N *)

\* Category.query.get(category_id)
get(cats, category_id) ==
    LET found == {c \in cats : c.id = category_id}
    IN  IF found = {} THEN None ELSE Some(CHOOSE c \in found : TRUE)

\* questions_by_category_response, had the category never been looked up
questions_by_category_response_NoLookup(rows, cats, category_id, page_arg) ==
    LET selection == OrderById({q \in rows : q.category = Some(category_id)})
        current_questions == paginate_questions(page_arg, selection)
    IN  jsonify([success |-> TRUE,
                 questions |-> current_questions,
                 total_questions |-> Len(selection),
                 current_category |-> category_id])

questions_by_category_response(rows, cats, category_id, page_arg) ==
    LET category == get(cats, category_id)
        selection == OrderById({q \in rows : q.category = Some(category_id)})
        current_questions == paginate_questions(page_arg, selection)
    IN  IF category = None
        THEN abort(404)
        ELSE jsonify([success |-> TRUE,
                      questions |-> current_questions,
                      total_questions |-> Len(selection),
                      current_category |-> category_id])

questions_by_category(category_id, page_arg) ==
    /\ served < MaxRequests
    /\ request' = [route |-> "questions_by_category",
                   category_id |-> category_id, page |-> page_arg]
    /\ response' = questions_by_category_response(questions, categories,
                                                  category_id, page_arg)
    /\ served' = served + 1
    /\ UNCHANGED <<questions, categories, next_id, created>>

----------------------------------------------------------------------------
(* POST /quizzes *)

\* `if body:` - None and the empty dict are falsy
Truthy(json) == json # None /\ DOMAIN json[1] # {}

\* The rows the query selects.  order_by(random()) orders them at random;
\* the handler reads only their number and iterates them into a set, so the
\* order is not kept.
quiz_questions(rows, quiz_category, previous_questions) ==
    IF quiz_category # 0
    THEN {q \in rows : /\ q.category = Some(quiz_category)
                       /\ q.id \notin Range(previous_questions)}
    ELSE {q \in rows : q.id \notin Range(previous_questions)}

\* get_quiz_response, had the test been `len(questions) >= 0`: the set is
\* built and serialised also when no row is selected
get_quiz_response_AlwaysSet(rows, json) ==
    IF ~Truthy(json)
    THEN internal_server_error
    ELSE LET body == json[1]
         IN  IF "previous_questions" \notin DOMAIN body
                \/ "quiz_category" \notin DOMAIN body
             THEN abort(400)
             ELSE LET selected == quiz_questions(rows, body["quiz_category"],
                                                 body["previous_questions"])
                  IN  IF Cardinality(selected) >= 0
                      THEN abort(400)
                      ELSE jsonify([success |-> TRUE, question |-> None])

\* what the handler answers, given what get_json() returned; whatever is
\* raised inside the try is answered by abort(400)
get_quiz_response(rows, json) ==
    IF ~Truthy(json)
    THEN \* the view returns nothing
         internal_server_error
    ELSE LET body == json[1]
         IN  IF "previous_questions" \notin DOMAIN body
                \/ "quiz_category" \notin DOMAIN body
             THEN \* KeyError
                  abort(400)
             ELSE LET selected == quiz_questions(rows, body["quiz_category"],
                                                 body["previous_questions"])
                  IN  IF Cardinality(selected) > 0
                      THEN \* {obj.format() for obj in questions} is a set
                           \* comprehension over dicts: a dict is not
                           \* hashable (and jsonify serialises no set), so
                           \* TypeError is raised inside the try
                           abort(400)
                      ELSE jsonify([success |-> TRUE, question |-> None])

get_quiz(sent, outcome) ==
    /\ served < MaxRequests
    /\ request' = [route |-> "get_quiz", body |-> sent]
    /\ LET got == get_json(sent, outcome)
       IN  response' = IF got.abort # 0
                       THEN abort(got.abort)
                       ELSE get_quiz_response(questions, got.json)
    /\ served' = served + 1
    /\ UNCHANGED <<questions, categories, next_id, created>>

----------------------------------------------------------------------------
(* The stores the service starts on, and the requests sent to it *)

Row(id, question, answer, category, difficulty) ==
    [id |-> id, question |-> Some(question), answer |-> Some(answer),
     category |-> Some(category), difficulty |-> Some(difficulty)]

SeedCategories ==
    {[id |-> 1, type |-> "Science"], [id |-> 2, type |-> "Art"]}

\* three questions, one of them in a category that does not exist
SeedSmall ==
    {Row(1, <<"a">>, <<"x">>, 1, 1),
     Row(2, <<"b", "a">>, <<"y">>, 1, 2),
     Row(3, <<"b">>, <<"x">>, 3, 1)}

\* one question more than a page holds
SeedLarge ==
    {Row(i, IF i % 2 = 1 THEN <<"a">> ELSE <<"b">>, <<"x">>, (i % 3) + 1, 1) :
        i \in 1..(QUESTIONS_PER_PAGE + 1)}

Seeds ==
    {[questions |-> {}, categories |-> {}],
     [questions |-> SeedSmall, categories |-> SeedCategories],
     [questions |-> SeedLarge, categories |-> SeedCategories]}

Pages == {None} \cup {Some(p) : p \in (0 - MaxPage)..MaxPage}

QuestionIds == 0..(QUESTIONS_PER_PAGE + 1 + MaxRequests)

CategoryIds == 0..MaxCategory

Payloads ==
    {EmptyDict,
     [question |-> Some(<<"a">>), answer |-> Some(<<"x">>),
      category |-> Some(1), difficulty |-> Some(1)],
     [question |-> Some(<<"a", "b">>), answer |-> Some(<<"y">>),
      category |-> Some(3), difficulty |-> Some(2)]}

SearchTerms == {None, Some(<<>>), Some(<<"a">>), Some(<<"a", "b">>), Some(<<"_">>)}

PostBodies ==
    {None} \cup {Some(p) : p \in Payloads}
           \cup {Some(("searchTerm" :> t) @@ p) : t \in SearchTerms, p \in Payloads}

PrevLists == {[i \in 1..n |-> i] : n \in 0..MaxPrev}

QuizBodies ==
    {None, Some(EmptyDict)}
        \cup {Some([previous_questions |-> l]) : l \in PrevLists}
        \cup {Some([quiz_category |-> c]) : c \in CategoryIds}
        \cup {Some([previous_questions |-> l, quiz_category |-> c]) :
                l \in PrevLists, c \in CategoryIds}

Outcomes(sent) == IF sent = None THEN GetJsonOutcomes ELSE {"none"}

Init ==
    /\ \E seed \in Seeds :
          /\ questions = seed.questions
          /\ categories = seed.categories
          /\ next_id = Cardinality(seed.questions) + 1
    /\ request = [route |-> "none"]
    /\ response = [status |-> 0, body |-> EmptyDict]
    /\ served = 0
    /\ created = {}

Next ==
    \/ retrieve_categories
    \/ \E p \in Pages : retrieve_questions(p)
    \/ \E id \in QuestionIds : delete_question(id)
    \/ \E sent \in PostBodies : \E outcome \in Outcomes(sent) :
          search_questions(sent, outcome)
    \/ \E c \in CategoryIds : \E p \in Pages : questions_by_category(c, p)
    \/ \E sent \in QuizBodies : \E outcome \in Outcomes(sent) :
          get_quiz(sent, outcome)

Spec == Init /\ [][Next]_vars

----------------------------------------------------------------------------
(* What the claims speak of *)

\* the primary keys in a table
Ids(rows) == {q.id : q \in rows}

\* t occurs in s as a run of consecutive characters
Substring(t, s) ==
    \E i \in 0..(Len(s) - Len(t)) : SubSeq(s, i + 1, i + Len(t)) = t

\* the body of the last request holds both keys the quiz reads
WellFormedQuiz(req) ==
    /\ req.route = "get_quiz"
    /\ req.body # None
    /\ "previous_questions" \in DOMAIN req.body[1]
    /\ "quiz_category" \in DOMAIN req.body[1]

\* the questions a quiz may still ask: in the category asked for, when one
\* is asked for, and not asked before
Eligible(rows, quiz_category, previous_questions) ==
    {q \in rows : /\ quiz_category # 0 => q.category = Some(quiz_category)
                  /\ \A i \in 1..Len(previous_questions) : previous_questions[i] # q.id}

\* the response is the success envelope of the quiz with this question
QuizSuccess(resp) ==
    /\ resp.status = 200
    /\ DOMAIN resp.body = {"success", "question"}
    /\ resp.body.success = TRUE

\* the response is the error envelope with this code and message
ErrorEnvelope(resp, code, message) ==
    /\ resp.status = code
    /\ DOMAIN resp.body = {"success", "error", "message"}
    /\ resp.body.success = FALSE
    /\ resp.body.message = message

\* q is on some page of GET /questions, which counts total questions
ListedWithTotal(q, rows, cats, total) ==
    \E p \in 1..((Cardinality(rows) \div QUESTIONS_PER_PAGE) + 1) :
        LET listing == retrieve_questions_response(rows, cats, Some(p))
        IN  /\ listing.status = 200
            /\ \E i \in 1..Len(listing.body.questions) :
                   listing.body.questions[i] = format(q)
            /\ listing.body.total_questions = total

----------------------------------------------------------------------------
(* C1: a well-formed quiz request for which some question is eligible is   *)
(* answered 200, success:true, with a non-null question that is one of the *)
(* eligible questions.                                                     *)
C1_QuizReturnsEligible ==
    (WellFormedQuiz(request)
        /\ Eligible(questions, request.body[1]["quiz_category"],
                    request.body[1]["previous_questions"]) # {})
    => /\ QuizSuccess(response)
       /\ response.body.question # None
       /\ \E q \in Eligible(questions, request.body[1]["quiz_category"],
                            request.body[1]["previous_questions"]) :
              response.body.question = format(q)

(* C2: a quiz request without a body, or whose body lacks                  *)
(* previous_questions, is always answered 400, success:false, "bad         *)
(* request".                                                               *)
C2_MalformedQuizIs400 ==
    (request.route = "get_quiz"
        /\ (request.body = None
              \/ "previous_questions" \notin DOMAIN request.body[1]))
    => ErrorEnvelope(response, 400, "bad request")

(* C3: deleting an id that is stored answers success:true with deleted     *)
(* equal to the id; afterwards no row has that id, exactly that one row is *)
(* gone, and every other question and every category is as before.         *)
C3_DeleteRemovesExactlyOne ==
    [][(request'.route = "delete_question"
            /\ request'.question_id \in Ids(questions))
        => /\ response'.status = 200
           /\ response'.body = [success |-> TRUE, deleted |-> request'.question_id]
           /\ request'.question_id \notin Ids(questions')
           /\ questions' \subseteq questions
           /\ \A q \in questions : q.id # request'.question_id => q \in questions'
           /\ Cardinality(questions') = Cardinality(questions) - 1
           /\ categories' = categories]_vars

C3_Witness ==
    /\ request.route = "delete_question"
    /\ response.status = 200
    /\ response.body.deleted = request.question_id
    /\ request.question_id \notin Ids(questions)
    /\ questions # {}

(* C4: deleting an id that is not stored (also one an earlier request      *)
(* deleted) answers 422, success:false, "unprocessable", and leaves the    *)
(* stored questions as they were.                                          *)
C4_DeleteMissingIs422 ==
    [][(request'.route = "delete_question"
            /\ request'.question_id \notin Ids(questions))
        => /\ ErrorEnvelope(response', 422, "unprocessable")
           /\ questions' = questions]_vars

\* the id was stored (every id below next_id was) and a request deleted it
C4_Witness ==
    /\ request.route = "delete_question"
    /\ response.status = 422
    /\ request.question_id \in 1..(next_id - 1)
    /\ request.question_id \notin Ids(questions)
    /\ questions # {}

(* C5, as stated: a create answers success:true and adds one question with *)
(* the fields sent; in every later state, until that question is deleted,  *)
(* it is on some page of the listing and total_questions is one greater    *)
(* than before the creation.                                               *)
C5_ListedWithTotalOneGreater ==
    \A c \in created :
        c.id \in Ids(questions)
        => \E q \in questions :
              /\ q.id = c.id
              /\ ListedWithTotal(q, questions, categories, c.total_before + 1)

(* C5, amended: a create answers success:true and adds one question with   *)
(* the fields sent, and the listing then counts one question more than     *)
(* before; a created question stays stored through every request but a    *)
(* DELETE of its id, and while it is stored it is on some page of the      *)
(* listing, whose total_questions is the number of questions stored.       *)
C5_CreatedStaysListed ==
    /\ [][/\ (request'.route = "search_questions"
                 /\ request'.body # None
                 /\ Get(request'.body[1], "searchTerm") = None)
              => /\ response' = [status |-> 200, body |-> [success |-> TRUE]]
                 /\ \E q \in questions' :
                       /\ q.id \notin Ids(questions)
                       /\ questions' = questions \cup {q}
                       /\ q.question = Get(request'.body[1], "question")
                       /\ q.answer = Get(request'.body[1], "answer")
                       /\ q.category = Get(request'.body[1], "category")
                       /\ q.difficulty = Get(request'.body[1], "difficulty")
                       /\ ListedWithTotal(q, questions', categories',
                                          Cardinality(questions) + 1)
          /\ \A c \in created : \A q \in questions :
                 q.id = c.id
                 => \/ q \in questions'
                    \/ /\ request'.route = "delete_question"
                       /\ request'.question_id = q.id]_vars
    /\ [](\A c \in created : \A q \in questions :
             q.id = c.id
             => ListedWithTotal(q, questions, categories, Cardinality(questions)))

\* a question created two requests ago is still stored, after another
\* request that changed the number of questions
C5_Witness ==
    /\ \E c \in created :
          /\ c.id \in Ids(questions)
          /\ Cardinality(questions) # c.total_before + 1
    /\ request.route # "search_questions"

(* C6: GET /questions?page=p answers the id-ordered questions at offset    *)
(* (p-1)*10, at most 10 of them, with total_questions the number of all    *)
(* questions; for p out of range (past the last page, zero or negative)    *)
(* the page computed is empty and the answer is 404 "resource not found".  *)
C6_PageOfListing ==
    (request.route = "retrieve_questions" /\ request.page # None)
    => LET p == request.page[1]
           all == OrderById(questions)
           offset == (p - 1) * QUESTIONS_PER_PAGE
           rest == Len(all) - offset
           size == IF rest < QUESTIONS_PER_PAGE THEN rest ELSE QUESTIONS_PER_PAGE
       IN  IF p >= 1 /\ offset < Len(all)
           THEN /\ response.status = 200
                /\ response.body.questions =
                      [i \in 1..size |-> format(all[offset + i])]
                /\ response.body.total_questions = Len(all)
           ELSE /\ paginate_questions(request.page, all) = <<>>
                /\ ErrorEnvelope(response, 404, "resource not found")

(* C7: GET /categories/{id}/questions answers 404 "resource not found"     *)
(* when no category has that id, whatever the questions carry; when one    *)
(* has, it answers success:true, every question returned has category id,  *)
(* total_questions is the number of questions of category id, and          *)
(* current_category is id.                                                 *)
C7_QuestionsByCategory ==
    request.route = "questions_by_category"
    => IF \A c \in categories : c.id # request.category_id
       THEN ErrorEnvelope(response, 404, "resource not found")
       ELSE /\ response.status = 200
            /\ response.body.success = TRUE
            /\ \A i \in 1..Len(response.body.questions) :
                  response.body.questions[i].category = Some(request.category_id)
            /\ response.body.total_questions =
                  Cardinality({q \in questions : q.category = Some(request.category_id)})
            /\ response.body.current_category = request.category_id

\* a category that exists, with questions returned, beside stored
\* questions of other categories
C7_Witness ==
    /\ request.route = "questions_by_category"
    /\ response.status = 200
    /\ Len(response.body.questions) > 0
    /\ \E q \in questions : q.category # Some(request.category_id)

(* C8: a well-formed quiz request for which no question is eligible is     *)
(* answered 200, success:true, question null, never an error, and leaves   *)
(* the store as it was.                                                    *)
C8_NoEligibleIsNull ==
    [][(WellFormedQuiz(request')
            /\ Eligible(questions, request'.body[1]["quiz_category"],
                        request'.body[1]["previous_questions"]) = {})
        => /\ QuizSuccess(response')
           /\ response'.body.question = None
           /\ questions' = questions
           /\ categories' = categories]_vars

\* questions of the category asked for are stored, and all were asked before
C8_Witness ==
    /\ WellFormedQuiz(request)
    /\ response.status = 200
    /\ response.body.question = None
    /\ request.body[1]["quiz_category"] # 0
    /\ \E q \in questions : q.category = Some(request.body[1]["quiz_category"])

(* C9: a quiz request whose quiz_category is falsy (0) or missing, and     *)
(* whose previous_questions is present, is not rejected as malformed: it   *)
(* is answered from all questions whose id is not in previous_questions,   *)
(* whatever their category.                                                *)
C9_FalsyOrMissingCategoryIsNoFilter ==
    (/\ request.route = "get_quiz"
     /\ request.body # None
     /\ "previous_questions" \in DOMAIN request.body[1]
     /\ ("quiz_category" \in DOMAIN request.body[1]
            => request.body[1]["quiz_category"] = 0))
    => LET unseen == Eligible(questions, 0, request.body[1]["previous_questions"])
       IN  /\ response.status # 400
           /\ QuizSuccess(response)
           /\ IF unseen = {}
              THEN response.body.question = None
              ELSE \E q \in unseen : response.body.question = format(q)

(* C10: POST /questions chooses its branch on searchTerm alone: with a     *)
(* non-null searchTerm (the empty string too, and whatever else the body   *)
(* carries) it inserts nothing, leaves questions and categories as they    *)
(* were, and returns exactly the questions whose text contains the term,   *)
(* total_questions being their number; only with searchTerm absent or      *)
(* null does it insert a row.                                              *)
C10_SearchBranchOnSearchTerm ==
    [][(request'.route = "search_questions" /\ request'.body # None)
        => LET term == Get(request'.body[1], "searchTerm")
               matching == {q \in questions :
                               /\ q.question # None
                               /\ Substring(term[1], q.question[1])}
           IN  IF term # None
               THEN /\ questions' = questions
                    /\ categories' = categories
                    /\ response'.status = 200
                    /\ Range(response'.body.questions) = {format(q) : q \in matching}
                    /\ Len(response'.body.questions) = Cardinality(matching)
                    /\ response'.body.total_questions = Cardinality(matching)
               ELSE Cardinality(questions') = Cardinality(questions) + 1]_vars

====
